---------------------------- MODULE Spec2Model ----------------------------
(***************************************************************************)
(* A model of src/main.rs: a monophonic sine synthesiser.  The audio       *)
(* callback (the closure next_value, driven by write_data) and the key     *)
(* dispatch loop of run are two contexts that share one Mutex<f32>, the    *)
(* requested frequency.                                                    *)
(*                                                                         *)
(* Numbers.  Every float of the program is an f32.  The envelope values    *)
(* (amplitude, target_amplitude, ramp_speed, release_ramp_speed) are kept  *)
(* as integers counting units of 2^-30, and every arithmetic result is     *)
(* rounded to a 24 bit significand, ties to even, as the hardware does.    *)
(* For sample rates up to 21 the release step is at least 2^-7, so every   *)
(* value the envelope can take is a multiple of 2^-30 and the integer      *)
(* model is exact.  Frequencies are kept as the bit pattern of the f32     *)
(* (0 is 0.0; bit patterns of positive floats order as the floats do).     *)
(* sample_clock only takes whole values below the sample rate.             *)
(***************************************************************************)
EXTENDS Integers, Sequences, FiniteSets, TLC

(***************************************************************************)
(* Bounds of the model.                                                    *)
(***************************************************************************)
\* Sample rates 1..MaxSampleRate are the device configurations explored.
MaxSampleRate == 2
\* Key events read by the bounded specification Spec.
MaxKeys == 6
\* Engine steps taken by the bounded specification Spec.
MaxSteps == 2
\* Key events read by the envelope specification SpecEnvelope.
MaxEnvelopeKeys == 3
\* Channels of the output configuration, in SpecBuffer.
MaxChannels == 2
\* Slots of a buffer handed to the data callback, in SpecBuffer.
MaxBufferLen == 3
\* Data callbacks started, in SpecBuffer.
MaxCallbacks == 2
\* Key events read, in SpecBuffer.
MaxBufferKeys == 1
\* Key events read, in SpecKeys.
MaxAllKeys == 6
\* The largest octave note_to_frequency is called with, in SpecNote.
MaxOctaveArg == 8

(***************************************************************************)
(* f32 arithmetic on integers counting units of 2^-30.                     *)
(***************************************************************************)
Abs(n) == IF n < 0 THEN -n ELSE n

Min(a, b) == IF a < b THEN a ELSE b

\* The spacing of f32 values around magnitude m: the least power of two p
\* with m < 2^24 * p.
RECURSIVE F32UlpFrom(_, _)
F32UlpFrom(m, p) == IF m \div p < 2^24 THEN p ELSE F32UlpFrom(m, 2 * p)

F32Ulp(m) == F32UlpFrom(m, 1)

\* The multiple of p nearest to the rational n / d (n >= 0, d > 0), ties to
\* the even multiple.
RoundHalfEven(n, d, p) ==
    LET q == n \div (d * p)
        r == n % (d * p)
    IN  IF 2 * r < d * p THEN q * p
        ELSE IF 2 * r > d * p THEN (q + 1) * p
        ELSE IF q % 2 = 0 THEN q * p ELSE (q + 1) * p

\* The f32 nearest to the exact value n.
F32Round(n) ==
    LET m == Abs(n)
        r == RoundHalfEven(m, 1, F32Ulp(m))
    IN  IF n < 0 THEN -r ELSE r

\* a + b and a - b as the f32 operations compute them.
F32Add(a, b) == F32Round(a + b)

F32Sub(a, b) == F32Round(a - b)

\* a / d for an f32 a and a whole divisor d, as the f32 division computes it.
F32Div(a, d) == RoundHalfEven(a, d, F32Ulp(a \div d))

(***************************************************************************)
(* The static tables.                                                      *)
(***************************************************************************)
NOTE_MAPPING ==
    << <<"C", 0>>, <<"C#", 1>>, <<"D", 2>>, <<"D#", 3>>, <<"E", 4>>, <<"F", 5>>,
       <<"F#", 6>>, <<"G", 7>>, <<"G#", 8>>, <<"A", 9>>, <<"A#", 10>>, <<"B", 11>> >>

\* A variant of KEY_MAP that spells one black key as a flat.
KEY_MAP_WithFlat ==
    [ a |-> <<"C", 0>>,  w |-> <<"Db", 0>>, s |-> <<"D", 0>>,  e |-> <<"D#", 0>>,
      d |-> <<"E", 0>>,  f |-> <<"F", 0>>,  t |-> <<"F#", 0>>, g |-> <<"G", 0>>,
      y |-> <<"G#", 0>>, h |-> <<"A", 0>>,  u |-> <<"A#", 0>>, j |-> <<"B", 0>>,
      k |-> <<"C", 1>>,  o |-> <<"C#", 1>>, l |-> <<"D", 1>> ]

KEY_MAP ==
    [ a |-> <<"C", 0>>,  w |-> <<"C#", 0>>, s |-> <<"D", 0>>,  e |-> <<"D#", 0>>,
      d |-> <<"E", 0>>,  f |-> <<"F", 0>>,  t |-> <<"F#", 0>>, g |-> <<"G", 0>>,
      y |-> <<"G#", 0>>, h |-> <<"A", 0>>,  u |-> <<"A#", 0>>, j |-> <<"B", 0>>,
      k |-> <<"C", 1>>,  o |-> <<"C#", 1>>, l |-> <<"D", 1>> ]

(***************************************************************************)
(* midi_to_freq: 440.0 * 2.0f64.powf((midi_note - 69) as f64 / 12.0), and  *)
(* the caller's cast of it to f32, as the bit pattern of that f32.         *)
(* SemitoneBits[r + 1] is the f32 nearest to 440 * 2^(r/12), r = 0..11;    *)
(* a whole octave multiplies by two, which adds 2^23 to the bit pattern.   *)
(***************************************************************************)
SemitoneBits ==
    << 1138491392, 1139348726, 1140257040, 1141035027, 1141544800, 1142084887,
       1142657089, 1143263316, 1143905591, 1144586057, 1145306986, 1146070784 >>

midi_to_freq(midi_note) ==
    SemitoneBits[((midi_note - 69) % 12) + 1] + ((midi_note - 69) \div 12) * 2^23

\* A variant of FindNote whose fallback is the pitch class of A.
RECURSIVE FindNoteDefaultA(_, _)
FindNoteDefaultA(note, i) ==
    IF i > Len(NOTE_MAPPING) THEN 9
    ELSE IF NOTE_MAPPING[i][1] = note THEN NOTE_MAPPING[i][2]
    ELSE FindNoteDefaultA(note, i + 1)

\* NOTE_MAPPING.iter().find(..).map(..).unwrap_or(0)
RECURSIVE FindNote(_, _)
FindNote(note, i) ==
    IF i > Len(NOTE_MAPPING) THEN 0
    ELSE IF NOTE_MAPPING[i][1] = note THEN NOTE_MAPPING[i][2]
    ELSE FindNote(note, i + 1)

\* A variant of note_to_frequency that numbers octaves from 0: 12 * octave.
note_to_frequency_octave0(note, octave) ==
    LET relative_note_number == FindNote(note, 1)
        midi_note_number == 12 * octave + relative_note_number
    IN  midi_to_freq(midi_note_number)

note_to_frequency(note, octave) ==
    LET relative_note_number == FindNote(note, 1)
        midi_note_number == 12 * (octave + 1) + relative_note_number
    IN  midi_to_freq(midi_note_number)

(***************************************************************************)
(* The constants of run.                                                   *)
(***************************************************************************)
RELEASE_TIME_SECONDS == 3

\* 0.5f32, in units of 2^-30
target_amplitude == 536870912

\* 0.01f32 = 10737418 * 2^-30
ramp_speed == 10737418

\* target_amplitude / (sample_rate * RELEASE_TIME_SECONDS)
release_ramp_speed(sr) == F32Div(target_amplitude, sr * RELEASE_TIME_SECONDS)

(***************************************************************************)
(* Key events.  read() returns a key event carrying a KeyCode, or          *)
(* something that is not a key event (an error, a resize, a mouse event).  *)
(***************************************************************************)
Char(c) == [code |-> "Char", c |-> c]

Esc == [code |-> "Esc", c |-> ""]

\* A key code that is neither Char nor Esc.
Enter == [code |-> "Enter", c |-> ""]

\* What read() returns when `if let Ok(Event::Key(..))` does not match.
NotKey == [code |-> "NotKey", c |-> ""]

\* The events explored: three note keys (A, C and the C of the next octave),
\* mute, both octave keys, an unmapped character, Esc, another key code and
\* a non-key event.
Events ==
    {Char("h"), Char("a"), Char("k"), Char(" "), Char("z"), Char("x"),
     Char("q"), Esc, Enter, NotKey}

\* The events of the envelope specification: one note key and mute.
EnvelopeEvents == {Char("h"), Char(" ")}

(***************************************************************************)
(* State.                                                                  *)
(***************************************************************************)
VARIABLES
    sample_rate,     \* config.sample_rate.0 as f32
    current_octave,  \* run's local, owned by the dispatch loop
    frequency,       \* the f32 inside Arc<Mutex<f32>>, as its bit pattern
    mutex,           \* who holds the Mutex: "free", "audio" or "control"
    stream,          \* "playing" from stream.play() until run drops the stream
    amplitude,       \* captured by next_value
    releasing,       \* captured by next_value
    sample_clock,    \* captured by next_value
    freq,            \* next_value's local: the frequency it read
    sample,          \* the value the last call of next_value returned
    audio_pc,        \* "idle", "locked", "loaded", "compute"
    ctl_pc,          \* "read", "lock", "store", "store2", "unlock", "break", "join",
                     \* "done"
    new_freq,        \* the value a key event is about to store
    channels,        \* config.channels as usize
    sample_format,   \* config.sample_format(): the T of run::<T>
    output,          \* the buffer the running data callback was handed
    pos,             \* write_data: index of the first slot of the next frame
    wd_pc,           \* write_data: "idle", "call" (next_sample), "write"
    \* Observers: they record what happened and no action reads them to
    \* decide what the program does.
    nkeys,           \* events returned by read()
    nsteps,          \* completed calls of next_value (stops counting at MaxSteps)
    atkSteps,        \* reads of a frequency > 0 since the last store of a note
    relSteps,        \* reads of frequency 0 since the last store
    lastWrite,       \* the value of the most recent completed store (0 if none)
    unseen,          \* completed stores since the last read (stops at 2)
    gap,             \* unseen, as it was at the last read
    event,           \* the last event read() returned
    octaveBefore,    \* current_octave as it was when that event was read
    readFreq,        \* the frequency the last completed call of next_value read
    returned,        \* the values next_sample returned in this callback, in order
    ncallbacks,      \* data callbacks started
    \* A call of note_to_frequency on its own.
    note,            \* the argument `note` ("" while no call has been made)
    octave,          \* the argument `octave`
    result           \* what the call returned, as f32 bits (0 until it returns)

prog == <<sample_rate, current_octave, frequency, mutex, stream, amplitude,
          releasing, sample_clock, freq, sample, audio_pc, ctl_pc, new_freq>>

obs == <<nkeys, nsteps, atkSteps, relSteps, lastWrite, unseen, gap, event,
         octaveBefore, readFreq>>

\* What write_data works on, and what the observers record of it.
wd == <<channels, sample_format, output, pos, wd_pc>>

wdobs == <<returned, ncallbacks>>

\* A call of note_to_frequency on its own: arguments and result.
call == <<note, octave, result>>

vars == <<prog, obs, wd, wdobs, call>>

\* Attack steps counted: one more than the 50 that 0.5 / 0.01 suggests.
AttackCap == 51

\* Release steps counted: sample_rate * RELEASE_TIME_SECONDS.
ReleaseSteps == sample_rate * RELEASE_TIME_SECONDS

SampleRates == 1..MaxSampleRate

\* The value of a sample whose sine argument or amplitude factor is zero.
Zero == [wave |-> "zero", phase |-> 0, freq |-> 0, amp |-> 0]

\* The sample formats run is started for: main panics on every other one.
SampleFormats == {"f32"}

\* A slot of an output buffer that this callback has not written.
Stale == [wave |-> "stale", phase |-> 0, freq |-> 0, amp |-> 0]

InitEngine ==
    /\ sample_rate \in SampleRates
    /\ current_octave = 3
    /\ frequency = 0
    /\ mutex = "free"
    /\ stream = "playing"
    /\ amplitude = 0
    /\ releasing = FALSE
    /\ sample_clock = 0
    /\ freq = 0
    /\ sample = Zero
    /\ audio_pc = "idle"
    /\ ctl_pc = "read"
    /\ new_freq = 0
    /\ nkeys = 0
    /\ nsteps = 0
    /\ atkSteps = 0
    /\ relSteps = 0
    /\ lastWrite = 0
    /\ unseen = 0
    /\ gap = 0
    /\ event = NotKey
    /\ octaveBefore = 3
    /\ readFreq = 0
    /\ output = <<>>
    /\ pos = 1
    /\ wd_pc = "idle"
    /\ returned = <<>>
    /\ ncallbacks = 0
    /\ note = ""
    /\ octave = 0
    /\ result = 0

\* The state after stream.play().  The engine never looks at the channel
\* count, so where write_data is left out it is fixed.
Init == InitEngine /\ channels = 1 /\ sample_format = "f32"

\* The same, for every channel count of the output configuration.
InitBuffer ==
    /\ InitEngine
    /\ channels \in 1..MaxChannels
    /\ sample_format \in SampleFormats

(***************************************************************************)
(* The audio context: one call of next_value.                              *)
(***************************************************************************)
\* A variant of AudioLock that does not wait for the mutex.
AudioLockNoWait ==
    /\ audio_pc = "idle"
    /\ stream = "playing"
    /\ mutex' = "audio"
    /\ audio_pc' = "locked"
    /\ UNCHANGED <<sample_rate, current_octave, frequency, stream, amplitude,
                   releasing, sample_clock, sample, freq, ctl_pc, new_freq>>

\* frequency.lock().unwrap(): blocks until the mutex is free.
AudioLock ==
    /\ audio_pc = "idle"
    /\ stream = "playing"
    /\ mutex = "free"
    /\ mutex' = "audio"
    /\ audio_pc' = "locked"
    /\ UNCHANGED <<sample_rate, current_octave, frequency, stream, amplitude,
                   releasing, sample_clock, sample, freq, ctl_pc, new_freq>>

\* let freq = *guard;
AudioLoad ==
    /\ audio_pc = "locked"
    /\ freq' = frequency
    /\ audio_pc' = "loaded"
    /\ UNCHANGED <<sample_rate, current_octave, frequency, mutex, stream,
                   amplitude, releasing, sample_clock, sample, ctl_pc, new_freq>>

\* The guard is a temporary: it is dropped at the end of the let statement.
AudioUnlock ==
    /\ audio_pc = "loaded"
    /\ mutex' = "free"
    /\ audio_pc' = "compute"
    /\ UNCHANGED <<sample_rate, current_octave, frequency, stream, amplitude,
                   releasing, sample_clock, sample, freq, ctl_pc, new_freq>>

\* A variant of Envelope that leaves out `if amplitude < target_amplitude`.
EnvelopeUnguarded(f, a, sr) ==
    IF f > 0
    THEN F32Add(a, ramp_speed)
    ELSE IF a > 0 THEN F32Sub(a, release_ramp_speed(sr)) ELSE a

\* The envelope update of one step, from the frequency f it read.
Envelope(f, a, sr) ==
    IF f > 0
    THEN IF a < target_amplitude THEN F32Add(a, ramp_speed) ELSE a
    ELSE IF a > 0 THEN F32Sub(a, release_ramp_speed(sr)) ELSE a

\* A variant of Sample that takes the cosine.
SampleCosine(c, f, a, sr) ==
    IF a = 0 THEN Zero ELSE [wave |-> "cos", phase |-> c, freq |-> f, amp |-> a]

\* (sample_clock * freq * 2.0 * PI / sample_rate).sin() * amplitude, with c the
\* sample clock after its update: sin(0.0) is 0.0 and 0.0 times any finite
\* amplitude compares equal to 0.0; every other sample is kept as the term.
Sample(c, f, a, sr) ==
    IF c = 0 \/ f = 0 \/ a = 0
    THEN Zero
    ELSE [wave |-> "sin", phase |-> c, freq |-> f, amp |-> a]

\* A variant of NextClock that never wraps.
NextClockNoWrap(c, sr) == c + 1

\* (sample_clock + 1.0) % sample_rate
NextClock(c, sr) == (c + 1) % sr

\* A variant of AudioCompute that never clears the releasing flag.
AudioComputeLatched ==
    /\ audio_pc = "compute"
    /\ releasing' = (releasing \/ ~(freq > 0))
    /\ amplitude' = Envelope(freq, amplitude, sample_rate)
    /\ sample_clock' = NextClock(sample_clock, sample_rate)
    /\ sample' = Sample(NextClock(sample_clock, sample_rate), freq,
                        Envelope(freq, amplitude, sample_rate), sample_rate)
    /\ freq' = 0
    /\ audio_pc' = "idle"
    /\ UNCHANGED <<sample_rate, current_octave, frequency, mutex, stream,
                   ctl_pc, new_freq>>

\* The rest of next_value: envelope, phase, sample.  It touches only what the
\* closure captured by value.
AudioCompute ==
    /\ audio_pc = "compute"
    /\ releasing' = ~(freq > 0)
    /\ amplitude' = Envelope(freq, amplitude, sample_rate)
    /\ sample_clock' = NextClock(sample_clock, sample_rate)
    /\ sample' = Sample(NextClock(sample_clock, sample_rate), freq,
                        Envelope(freq, amplitude, sample_rate), sample_rate)
    /\ freq' = 0
    /\ audio_pc' = "idle"
    /\ UNCHANGED <<sample_rate, current_octave, frequency, mutex, stream,
                   ctl_pc, new_freq>>

(***************************************************************************)
(* The audio context: the data callback and write_data.                    *)
(***************************************************************************)
\* T::from_sample(s): the sample s converted to the format fmt, as a term.
from_sample(fmt, s) == [format |-> fmt, of |-> s]

\* The stream invokes the data callback with a buffer of n slots, whose
\* contents are whatever was there; write_data starts on its first chunk.
Callback(n) ==
    /\ wd_pc = "idle"
    /\ audio_pc = "idle"
    /\ stream = "playing"
    /\ output' = [i \in 1..n |-> Stale]
    /\ pos' = 1
    /\ wd_pc' = IF n = 0 THEN "idle" ELSE "call"
    /\ UNCHANGED <<channels, sample_format>>
    /\ UNCHANGED prog

\* write_data is at next_sample(): the steps of next_value leave its
\* variables alone until next_value returns.
InNextSample == wd_pc = "call" /\ UNCHANGED wd

\* next_sample() returned: write_data goes on to fill the frame.
NextSampleReturn ==
    /\ wd_pc = "call"
    /\ wd_pc' = "write"
    /\ UNCHANGED <<channels, sample_format, output, pos>>

\* The last slot of the chunk that starts at slot p: chunks_mut(c) gives
\* chunks of c slots, the last one shorter when c does not divide the length.
ChunkEnd(p, c, n) == Min(p + c - 1, n)

\* A variant of FrameWrite that writes the first slot of the frame only.
FrameWriteFirstSlot ==
    /\ wd_pc = "write"
    /\ output' = [output EXCEPT ![pos] = from_sample(sample_format, sample)]
    /\ pos' = ChunkEnd(pos, channels, Len(output)) + 1
    /\ wd_pc' = IF pos' > Len(output) THEN "idle" ELSE "call"
    /\ UNCHANGED <<channels, sample_format>>
    /\ UNCHANGED prog

\* let value = T::from_sample(..); for sample in frame.iter_mut() { *sample =
\* value }, and the for loop over the chunks moves to the next frame or ends.
FrameWrite ==
    /\ wd_pc = "write"
    /\ output' = [i \in 1..Len(output) |->
                      IF pos <= i /\ i <= ChunkEnd(pos, channels, Len(output))
                      THEN from_sample(sample_format, sample)
                      ELSE output[i]]
    /\ pos' = ChunkEnd(pos, channels, Len(output)) + 1
    /\ wd_pc' = IF pos' > Len(output) THEN "idle" ELSE "call"
    /\ UNCHANGED <<channels, sample_format>>
    /\ UNCHANGED prog

(***************************************************************************)
(* The control context: the loop of run.                                   *)
(***************************************************************************)
\* if current_octave > 0 { current_octave -= 1 }
OctaveDown(o) == IF o > 0 THEN o - 1 ELSE o

\* A variant of OctaveUp without the bound.
OctaveUpUnbounded(o) == o + 1

\* if current_octave < 8 { current_octave += 1 }
OctaveUp(o) == IF o < 8 THEN o + 1 ELSE o

\* A variant of KeyFrequency in which the space key is looked up as a note.
KeyFrequencyMuteAsNote(c, o) ==
    IF c = " " THEN note_to_frequency(" ", o)
    ELSE note_to_frequency(KEY_MAP[c][1], o + KEY_MAP[c][2])

\* The value the match arm for `code` stores, given the octave.
KeyFrequency(c, o) ==
    IF c = " " THEN 0
    ELSE note_to_frequency(KEY_MAP[c][1], o + KEY_MAP[c][2])

\* Whether the match arm for event ev stores into the shared frequency.
Stores(ev) ==
    /\ ev.code = "Char"
    /\ \/ ev.c = " "
       \/ ev.c \notin {"z", "x"} /\ ev.c \in DOMAIN KEY_MAP

\* A variant of KeyMatch whose last arm leaves the loop.
KeyMatchDefaultBreaks(ev) ==
    IF Stores(ev)
    THEN /\ new_freq' = KeyFrequency(ev.c, current_octave)
         /\ ctl_pc' = "lock"
         /\ UNCHANGED current_octave
    ELSE IF ev = Char("z")
    THEN /\ current_octave' = OctaveDown(current_octave)
         /\ UNCHANGED <<ctl_pc, new_freq>>
    ELSE IF ev = Char("x")
    THEN /\ current_octave' = OctaveUp(current_octave)
         /\ UNCHANGED <<ctl_pc, new_freq>>
    ELSE /\ ctl_pc' = "break"
         /\ UNCHANGED <<current_octave, new_freq>>

\* The match on the key code: what it does to the locals of the loop.
KeyMatch(ev) ==
    IF Stores(ev)
    THEN /\ new_freq' = KeyFrequency(ev.c, current_octave)
         /\ ctl_pc' = "lock"
         /\ UNCHANGED current_octave
    ELSE IF ev = Char("z")
    THEN /\ current_octave' = OctaveDown(current_octave)
         /\ UNCHANGED <<ctl_pc, new_freq>>
    ELSE IF ev = Char("x")
    THEN /\ current_octave' = OctaveUp(current_octave)
         /\ UNCHANGED <<ctl_pc, new_freq>>
    ELSE IF ev = Esc
    THEN /\ ctl_pc' = "break"
         /\ UNCHANGED <<current_octave, new_freq>>
    ELSE UNCHANGED <<current_octave, ctl_pc, new_freq>>

\* A variant of KeyEvent in which mute also silences the envelope at once.
KeyEventSilences(ev) ==
    /\ ctl_pc = "read"
    /\ KeyMatch(ev)
    /\ amplitude' = IF ev = Char(" ") THEN 0 ELSE amplitude
    /\ UNCHANGED <<sample_rate, frequency, mutex, stream, releasing,
                   sample_clock, sample, freq, audio_pc>>

\* A variant of KeyEvent in which 'x' also moves a sounding note up an octave
\* (doubling an f32 adds 2^23 to its bit pattern).
KeyEventTransposes(ev) ==
    /\ ctl_pc = "read"
    /\ KeyMatch(ev)
    /\ frequency' = IF ev = Char("x") /\ frequency > 0
                     THEN frequency + 2^23
                     ELSE frequency
    /\ UNCHANGED <<sample_rate, mutex, stream, amplitude, releasing,
                   sample_clock, sample, freq, audio_pc>>

\* read() returns ev and the match runs up to the point where it needs the
\* mutex (or to the end of the arm, when it needs none).
KeyEvent(ev) ==
    /\ ctl_pc = "read"
    /\ KeyMatch(ev)
    /\ UNCHANGED <<sample_rate, frequency, mutex, stream, amplitude, releasing,
                   sample_clock, sample, freq, audio_pc>>

\* A variant of CtlLock that does not wait for the mutex.
CtlLockNoWait ==
    /\ ctl_pc = "lock"
    /\ mutex' = "control"
    /\ ctl_pc' = "store"
    /\ UNCHANGED <<sample_rate, current_octave, frequency, stream, amplitude,
                   releasing, sample_clock, sample, freq, audio_pc, new_freq>>

\* frequency_clone.lock().unwrap(): blocks until the mutex is free.
CtlLock ==
    /\ ctl_pc = "lock"
    /\ mutex = "free"
    /\ mutex' = "control"
    /\ ctl_pc' = "store"
    /\ UNCHANGED <<sample_rate, current_octave, frequency, stream, amplitude,
                   releasing, sample_clock, sample, freq, audio_pc, new_freq>>

\* *guard = freq: a plain store, not an atomic one.  It is modelled as taking
\* effect in two halves (the low 16 bits, then the high 16 bits), so a read
\* that is not excluded from it can see a value that was never stored.
StoreLow(old, new) == (old \div 2^16) * 2^16 + (new % 2^16)

CtlStoreLow ==
    /\ ctl_pc = "store"
    /\ frequency' = StoreLow(frequency, new_freq)
    /\ ctl_pc' = "store2"
    /\ UNCHANGED <<sample_rate, current_octave, mutex, stream, amplitude,
                   releasing, sample_clock, sample, freq, audio_pc, new_freq>>

CtlStoreHigh ==
    /\ ctl_pc = "store2"
    /\ frequency' = new_freq
    /\ ctl_pc' = "unlock"
    /\ UNCHANGED <<sample_rate, current_octave, mutex, stream, amplitude,
                   releasing, sample_clock, sample, freq, audio_pc, new_freq>>

\* A variant of CtlUnlock that leaves the mutex locked (the guard is leaked).
CtlUnlockLeaks ==
    /\ ctl_pc = "unlock"
    /\ ctl_pc' = "read"
    /\ new_freq' = 0
    /\ UNCHANGED <<sample_rate, current_octave, frequency, mutex, stream,
                   amplitude, releasing, sample_clock, sample, freq, audio_pc>>

\* The guard is dropped at the end of the assignment statement.
CtlUnlock ==
    /\ ctl_pc = "unlock"
    /\ mutex' = "free"
    /\ ctl_pc' = "read"
    /\ new_freq' = 0
    /\ UNCHANGED <<sample_rate, current_octave, frequency, stream, amplitude,
                   releasing, sample_clock, sample, freq, audio_pc>>

\* After break: run reaches Ok(()) and its locals go out of scope.  Dropping
\* the stream first tells the audio thread to stop: no callback starts after.
StreamDrop ==
    /\ ctl_pc = "break"
    /\ ctl_pc' = "join"
    /\ stream' = "dropped"
    /\ UNCHANGED <<sample_rate, current_octave, frequency, mutex, amplitude,
                   releasing, sample_clock, sample, freq, audio_pc, new_freq>>

\* A variant of RunReturn that does not wait for the audio thread.
RunReturnNoJoin ==
    /\ ctl_pc = "join"
    /\ ctl_pc' = "done"
    /\ UNCHANGED <<sample_rate, current_octave, frequency, mutex, stream,
                   amplitude, releasing, sample_clock, sample, freq, audio_pc,
                   new_freq>>

\* The drop of the stream then waits for the callback in progress, and run
\* returns Ok(()).
RunReturn ==
    /\ ctl_pc = "join"
    /\ audio_pc = "idle"
    /\ ctl_pc' = "done"
    /\ UNCHANGED <<sample_rate, current_octave, frequency, mutex, stream,
                   amplitude, releasing, sample_clock, sample, freq, audio_pc,
                   new_freq>>

(***************************************************************************)
(* What the observers record at each step.                                 *)
(***************************************************************************)
\* read() returned an event.
ObsKey(ev) ==
    /\ nkeys' = nkeys + 1
    /\ event' = ev
    /\ octaveBefore' = current_octave
    /\ UNCHANGED <<nsteps, atkSteps, relSteps, lastWrite, unseen, gap, readFreq>>

\* next_value read the shared frequency.
ObsLoad ==
    /\ atkSteps' = IF frequency > 0 THEN Min(atkSteps + 1, AttackCap) ELSE atkSteps
    /\ relSteps' = IF frequency > 0 THEN relSteps ELSE Min(relSteps + 1, ReleaseSteps)
    /\ gap' = unseen
    /\ unseen' = 0
    /\ UNCHANGED <<nkeys, nsteps, lastWrite, event, octaveBefore, readFreq>>

\* next_value returned.
ObsCompute ==
    /\ nsteps' = Min(nsteps + 1, MaxSteps)
    /\ readFreq' = freq
    /\ UNCHANGED <<nkeys, atkSteps, relSteps, lastWrite, unseen, gap, event, octaveBefore>>

\* A store into the shared frequency is complete.
ObsStore ==
    /\ lastWrite' = new_freq
    /\ unseen' = Min(unseen + 1, 2)
    /\ relSteps' = 0
    /\ atkSteps' = IF new_freq > 0 THEN 0 ELSE atkSteps
    /\ UNCHANGED <<nkeys, nsteps, gap, event, octaveBefore, readFreq>>

ObsNone == UNCHANGED obs

\* A data callback started.
ObsCallback ==
    /\ ncallbacks' = ncallbacks + 1
    /\ returned' = <<>>

\* next_sample() returned a value to write_data.
ObsReturn ==
    /\ returned' = Append(returned, sample')
    /\ UNCHANGED ncallbacks

(***************************************************************************)
(* Spec: both contexts, every event of Events, at most MaxKeys events and  *)
(* MaxSteps engine steps.                                                  *)
(***************************************************************************)
Next ==
    \/ \E ev \in Events : nkeys < MaxKeys /\ KeyEvent(ev) /\ ObsKey(ev) /\ UNCHANGED <<wd, wdobs, call>>
    \/ CtlLock /\ ObsNone /\ UNCHANGED <<wd, wdobs, call>>
    \/ CtlStoreLow /\ ObsNone /\ UNCHANGED <<wd, wdobs, call>>
    \/ CtlStoreHigh /\ ObsStore /\ UNCHANGED <<wd, wdobs, call>>
    \/ CtlUnlock /\ ObsNone /\ UNCHANGED <<wd, wdobs, call>>
    \/ StreamDrop /\ ObsNone /\ UNCHANGED <<wd, wdobs, call>>
    \/ RunReturn /\ ObsNone /\ UNCHANGED <<wd, wdobs, call>>
    \/ nsteps < MaxSteps /\ AudioLock /\ ObsNone /\ UNCHANGED <<wd, wdobs, call>>
    \/ AudioLoad /\ ObsLoad /\ UNCHANGED <<wd, wdobs, call>>
    \/ AudioUnlock /\ ObsNone /\ UNCHANGED <<wd, wdobs, call>>
    \/ AudioCompute /\ ObsCompute /\ UNCHANGED <<wd, wdobs, call>>

Spec == Init /\ [][Next]_vars

(***************************************************************************)
(* SpecEnvelope: a note key and mute, at most MaxEnvelopeKeys events, any  *)
(* number of engine steps.  (With no bound on the events the envelope      *)
(* takes millions of values: the attack and release steps share no common  *)
(* measure.)                                                               *)
(***************************************************************************)
NextEnvelope ==
    \/ \E ev \in EnvelopeEvents : nkeys < MaxEnvelopeKeys /\ KeyEvent(ev) /\ ObsKey(ev) /\ UNCHANGED <<wd, wdobs, call>>
    \/ CtlLock /\ ObsNone /\ UNCHANGED <<wd, wdobs, call>>
    \/ CtlStoreLow /\ ObsNone /\ UNCHANGED <<wd, wdobs, call>>
    \/ CtlStoreHigh /\ ObsStore /\ UNCHANGED <<wd, wdobs, call>>
    \/ CtlUnlock /\ ObsNone /\ UNCHANGED <<wd, wdobs, call>>
    \/ AudioLock /\ ObsNone /\ UNCHANGED <<wd, wdobs, call>>
    \/ AudioLoad /\ ObsLoad /\ UNCHANGED <<wd, wdobs, call>>
    \/ AudioUnlock /\ ObsNone /\ UNCHANGED <<wd, wdobs, call>>
    \/ AudioCompute /\ ObsCompute /\ UNCHANGED <<wd, wdobs, call>>

SpecEnvelope == Init /\ [][NextEnvelope]_vars

(***************************************************************************)
(* SpecBuffer: the data callback with write_data, for every channel count, *)
(* buffers of up to MaxBufferLen slots, at most                            *)
(* MaxCallbacks callbacks and MaxBufferKeys events (a note key and mute).  *)
(***************************************************************************)
\* The control context takes the mutex.
CtlAcquire == CtlLock /\ ObsNone /\ UNCHANGED <<wd, wdobs, call>>

\* The control context, holding the mutex, stores and releases it.
CtlProgress ==
    \/ CtlStoreLow /\ ObsNone /\ UNCHANGED <<wd, wdobs, call>>
    \/ CtlStoreHigh /\ ObsStore /\ UNCHANGED <<wd, wdobs, call>>
    \/ CtlUnlock /\ ObsNone /\ UNCHANGED <<wd, wdobs, call>>

\* The audio context, inside next_sample(), takes the mutex.
AudioAcquire == InNextSample /\ AudioLock /\ ObsNone /\ UNCHANGED wdobs /\ UNCHANGED call

\* The audio context goes on with the callback it is in.
AudioProgress ==
    \/ InNextSample /\ AudioLoad /\ ObsLoad /\ UNCHANGED wdobs /\ UNCHANGED call
    \/ InNextSample /\ AudioUnlock /\ ObsNone /\ UNCHANGED wdobs /\ UNCHANGED call
    \/ NextSampleReturn /\ AudioCompute /\ ObsCompute /\ ObsReturn /\ UNCHANGED call
    \/ FrameWrite /\ ObsNone /\ UNCHANGED wdobs /\ UNCHANGED call

NextBuffer ==
    \/ \E ev \in EnvelopeEvents : nkeys < MaxBufferKeys /\ KeyEvent(ev) /\ ObsKey(ev) /\ UNCHANGED <<wd, wdobs, call>>
    \/ CtlAcquire
    \/ CtlProgress
    \/ \E n \in 0..MaxBufferLen : ncallbacks < MaxCallbacks /\ Callback(n) /\ ObsCallback /\ ObsNone /\ UNCHANGED call
    \/ AudioAcquire
    \/ AudioProgress

SpecBuffer == InitBuffer /\ [][NextBuffer]_vars

(***************************************************************************)
(* SpecFair: SpecBuffer under fair scheduling.  A context that can go on   *)
(* without the mutex does go on (the scheduler runs a runnable thread),    *)
(* and a context that is able again and again to take the mutex does take  *)
(* it.  Nothing is assumed of key events, which wait for the user, nor of  *)
(* the start of a callback, which waits for the device.                    *)
(***************************************************************************)
Fairness ==
    /\ WF_vars(CtlProgress)
    /\ SF_vars(CtlAcquire)
    /\ WF_vars(AudioProgress)
    /\ SF_vars(AudioAcquire)

SpecFair == InitBuffer /\ [][NextBuffer]_vars /\ Fairness

(***************************************************************************)
(* SpecKeys: the dispatch loop on its own (no step of the audio context    *)
(* writes what it works on), with every character of KEY_MAP, mute and     *)
(* both octave keys, at most MaxAllKeys events.                            *)
(***************************************************************************)
AllKeyEvents == {Char(c) : c \in DOMAIN KEY_MAP \cup {" ", "z", "x"}}

NextKeys ==
    \/ \E ev \in AllKeyEvents : nkeys < MaxAllKeys /\ KeyEvent(ev) /\ ObsKey(ev) /\ UNCHANGED <<wd, wdobs, call>>
    \/ CtlLock /\ ObsNone /\ UNCHANGED <<wd, wdobs, call>>
    \/ CtlStoreLow /\ ObsNone /\ UNCHANGED <<wd, wdobs, call>>
    \/ CtlStoreHigh /\ ObsStore /\ UNCHANGED <<wd, wdobs, call>>
    \/ CtlUnlock /\ ObsNone /\ UNCHANGED <<wd, wdobs, call>>

SpecKeys == Init /\ [][NextKeys]_vars

(***************************************************************************)
(* SpecNote: note_to_frequency on its own, called with every name of       *)
(* NoteNames and every octave of 0..MaxOctaveArg.                          *)
(***************************************************************************)
\* The names of NOTE_MAPPING.
KnownNotes == {NOTE_MAPPING[i][1] : i \in 1..Len(NOTE_MAPPING)}

\* Names that NOTE_MAPPING does not hold: a letter that is no note, a
\* lower-case name, a flat, the empty name.
UnknownNotes == {"H", "c", "Db", ""}

NoteNames == KnownNotes \cup UnknownNotes

\* note_to_frequency is called with note n and octave o.
NoteCall(n, o) ==
    /\ note' = n
    /\ octave' = o
    /\ result' = 0

\* The call returns; the caller takes the f64 `as f32`.
NoteReturn ==
    /\ result = 0
    /\ result' = note_to_frequency(note, octave)
    /\ UNCHANGED <<note, octave>>

NextNote ==
    \/ \E n \in NoteNames, o \in 0..MaxOctaveArg :
           NoteCall(n, o) /\ UNCHANGED <<prog, obs, wd, wdobs>>
    \/ NoteReturn /\ UNCHANGED <<prog, obs, wd, wdobs>>

SpecNote == Init /\ [][NextNote]_vars

(***************************************************************************)
(* Helpers of the claims.                                                  *)
(***************************************************************************)
\* The bit pattern of the f32 that holds the whole number n, 1 <= n < 2^24.
RECURSIVE Log2From(_, _)
Log2From(n, e) == IF n < 2^(e + 1) THEN e ELSE Log2From(n, e + 1)

Hz(n) ==
    LET e == Log2From(n, 0)
    IN  (127 + e) * 2^23 + (n - 2^e) * 2^(23 - e)

\* An engine step has just run its envelope update.
EngineStep == audio_pc = "compute" /\ audio_pc' = "idle"

(***************************************************************************)
(* C1.  For every interleaving of key events and engine steps the envelope *)
(* amplitude satisfies 0 <= amplitude <= target_amplitude (0.5) in every   *)
(* reachable state.  The code does not keep it: a release that starts in   *)
(* the middle of an attack steps below 0, and the 51st attack step         *)
(* overshoots 0.5.                                                         *)
(***************************************************************************)
C1_AmplitudeInRange == 0 <= amplitude /\ amplitude <= target_amplitude

(***************************************************************************)
(* C2.  Once the frequency has been set to 0 and no note key is pressed    *)
(* afterwards, the amplitude is exactly 0 after sample_rate * 3 engine     *)
(* steps, whatever it was when the release began, and stays 0.  The code   *)
(* does not do it: the last release step carries the amplitude below 0,    *)
(* where it stays.                                                         *)
(***************************************************************************)
C2_ReleaseReachesZero ==
    (audio_pc = "idle" /\ relSteps = ReleaseSteps) => amplitude = 0

(***************************************************************************)
(* C3.  An engine step that read a frequency > 0 strictly increases the    *)
(* amplitude when it is below target_amplitude and leaves it unchanged     *)
(* when it is at target_amplitude or above.                                *)
(***************************************************************************)
C3_HeldNoteRamp ==
    [][(EngineStep /\ freq > 0) =>
           IF amplitude < target_amplitude
           THEN amplitude' > amplitude
           ELSE amplitude' = amplitude]_vars

\* A held note has been read AttackCap times: the amplitude has passed the
\* target and the last step left it where it was.
C3_Witness ==
    /\ audio_pc = "idle"
    /\ frequency > 0
    /\ atkSteps = AttackCap
    /\ amplitude >= target_amplitude

(***************************************************************************)
(* C4.  From the initial state, the key 'h' targets MIDI note 57 (220 Hz); *)
(* the amplitude is ramp_speed after 1 engine step and exactly             *)
(* target_amplitude after 50; mute then brings it to exactly 0 after       *)
(* exactly sample_rate * 3 further steps, no earlier and no later.  The    *)
(* code reaches 0.4999998 after 50 steps and 0.5099998 after 51, and the   *)
(* release ends below 0.                                                   *)
(***************************************************************************)
C4_Scenario ==
    /\ (nkeys = 1 /\ lastWrite > 0) => lastWrite = Hz(220) /\ lastWrite = midi_to_freq(57)
    /\ (nkeys = 1 /\ audio_pc = "idle" /\ atkSteps = 1) => amplitude = ramp_speed
    /\ (nkeys = 1 /\ audio_pc = "idle" /\ atkSteps = 50) => amplitude = target_amplitude
    /\ (nkeys = 2 /\ lastWrite = 0 /\ audio_pc = "idle" /\ atkSteps = 50) =>
           IF relSteps < ReleaseSteps THEN amplitude > 0 ELSE amplitude = 0

(***************************************************************************)
(* C5.  current_octave starts at 3 and stays in 0..8; 'x' at 8 leaves it   *)
(* at 8, 'z' at 0 leaves it at 0, and away from the bounds each octave     *)
(* key changes it by exactly 1.                                            *)
(***************************************************************************)
C5_Octave ==
    /\ current_octave \in 0..8
    /\ nkeys = 0 => current_octave = 3
    /\ event = Char("x") =>
           current_octave = IF octaveBefore = 8 THEN 8 ELSE octaveBefore + 1
    /\ event = Char("z") =>
           current_octave = IF octaveBefore = 0 THEN 0 ELSE octaveBefore - 1

\* 'x' was pressed at octave 8.
C5_Witness == event = Char("x") /\ octaveBefore = 8 /\ current_octave = 8

(***************************************************************************)
(* C6.  sample_clock is in [0, sample_rate); each engine step advances it  *)
(* by exactly 1 modulo sample_rate whatever the frequency, so it is the    *)
(* number of steps taken modulo sample_rate, and after sample_rate steps   *)
(* it is back where it started.                                            *)
(***************************************************************************)
C6_Phase ==
    /\ sample_clock \in 0..(sample_rate - 1)
    /\ sample_clock = nsteps % sample_rate

\* sample_rate steps of a sounding note have wrapped the phase back to 0.
C6_Witness ==
    /\ sample_rate > 1
    /\ nsteps = sample_rate
    /\ atkSteps > 0
    /\ sample_clock = 0

(***************************************************************************)
(* C7.  A mapped note key with binding (note, octave offset), pressed at   *)
(* octave o, stores the pitch of MIDI note 12 * (o + offset + 1) +         *)
(* pitch class (C = 0, A = 9): A at octave 4 is 440 Hz, A at octave 3 is   *)
(* 220 Hz.  The press leaves current_octave unchanged.                     *)
(***************************************************************************)
\* The pitch class and octave offset of the note keys explored.
C7_Binding == [h |-> <<9, 0>>, a |-> <<0, 0>>, k |-> <<0, 1>>]

C7_NoteKey ==
    (event.code = "Char" /\ event.c \in DOMAIN C7_Binding /\ ctl_pc = "unlock") =>
        /\ frequency =
               midi_to_freq(12 * (octaveBefore + C7_Binding[event.c][2] + 1)
                            + C7_Binding[event.c][1])
        /\ current_octave = octaveBefore
        /\ (event.c = "h" /\ octaveBefore = 4) => frequency = Hz(440)
        /\ (event.c = "h" /\ octaveBefore = 3) => frequency = Hz(220)
        /\ (event.c = "k") =>
               frequency = note_to_frequency("C", octaveBefore) + 2^23

\* 'h' pressed at octave 4 has stored 440 Hz.
C7_Witness ==
    /\ event = Char("h")
    /\ octaveBefore = 4
    /\ ctl_pc = "unlock"
    /\ frequency = Hz(440)

(***************************************************************************)
(* C8.  The frequency an engine step reads is the initial 0.0 or the value *)
(* of the most recent store completed before the read: never a partial     *)
(* value, never an older one, and of several stores between two reads      *)
(* only the last.                                                          *)
(***************************************************************************)
C8_ReadsLastWrite == audio_pc = "loaded" => freq = lastWrite

\* Two stores were completed between two reads, and the read saw the last.
C8_Witness ==
    /\ audio_pc = "loaded"
    /\ gap = 2
    /\ freq > 0
    /\ freq = lastWrite

(***************************************************************************)
(* C9.  At most one context holds the frequency mutex, and each holds it   *)
(* for one read or one write only: the audio context has released it       *)
(* before the envelope, phase and sine computation, and the control        *)
(* context does not hold it while it waits for a key event or computes     *)
(* note_to_frequency.                                                      *)
(***************************************************************************)
AudioInCriticalSection == audio_pc \in {"locked", "loaded"}

ControlInCriticalSection == ctl_pc \in {"store", "store2", "unlock"}

C9_MutualExclusion ==
    /\ ~(AudioInCriticalSection /\ ControlInCriticalSection)
    /\ (mutex = "audio") <=> AudioInCriticalSection
    /\ (mutex = "control") <=> ControlInCriticalSection
    /\ audio_pc = "compute" => mutex # "audio"
    /\ ctl_pc \in {"read", "lock", "break", "join", "done"} => mutex # "control"

\* The control context waits for the mutex while the audio context holds it.
C9_Witness == mutex = "audio" /\ ctl_pc = "lock" /\ audio_pc = "loaded"

(***************************************************************************)
(* C10.  No step of the control context changes sample_clock, amplitude or *)
(* releasing, and no step of the audio context changes the shared          *)
(* frequency or current_octave.                                            *)
(***************************************************************************)
C10_Frame ==
    [][/\ (ctl_pc' # ctl_pc \/ nkeys' # nkeys) =>
              UNCHANGED <<sample_clock, amplitude, releasing>>
       /\ (audio_pc' # audio_pc) => UNCHANGED <<frequency, current_octave>>]_vars

\* Mute was read while the envelope was up: the key left it as it was.
C10_Witness ==
    /\ event = Char(" ")
    /\ ctl_pc = "lock"
    /\ amplitude > 0
    /\ sample_clock > 0

(***************************************************************************)
(* C11.  Esc ends the dispatch loop and is the only event that does: once  *)
(* the loop is left no key event is read and current_octave and the shared *)
(* frequency stay as they are.  The quit also stops the audio stream: when *)
(* run has returned the stream is dropped, no engine step is in progress   *)
(* and none runs afterwards.                                               *)
(***************************************************************************)
LoopLeft == ctl_pc \in {"break", "join", "done"}

MuteStored == event = Char(" ") /\ ctl_pc \in {"unlock", "read"}

C12_Mute ==
    /\ [](event = Char(" ") => current_octave = octaveBefore)
    /\ [](MuteStored => frequency = 0)
    /\ [][(audio_pc = "locked" /\ audio_pc' = "loaded" /\ MuteStored)
              => freq' = 0]_vars
    /\ [][(EngineStep /\ freq = 0) =>
              releasing' /\ amplitude' <= amplitude]_vars

\* A note sounded at another octave than the initial one, mute was pressed
\* and the step after it released: the amplitude is under its first attack
\* value.
C12_Witness ==
    /\ MuteStored
    /\ current_octave # 3
    /\ atkSteps > 0
    /\ relSteps > 0
    /\ audio_pc = "idle"
    /\ releasing
    /\ amplitude < ramp_speed

(***************************************************************************)
(* C13.  An event that is neither a character of KEY_MAP, nor space, 'z',  *)
(* 'x' or Esc changes neither the shared frequency nor current_octave, and *)
(* the loop goes on to read the next event.                                *)
(***************************************************************************)
Ignored(ev) ==
    /\ ev # Esc
    /\ ~(ev.code = "Char" /\ ev.c \in DOMAIN KEY_MAP \cup {" ", "z", "x"})

C13_IgnoredKey ==
    /\ [][(nkeys' # nkeys /\ Ignored(event')) =>
              /\ UNCHANGED <<frequency, current_octave, new_freq, mutex>>
              /\ ctl_pc' = "read"]_vars
    /\ []((nkeys > 0 /\ Ignored(event)) =>
              /\ ctl_pc = "read"
              /\ current_octave = octaveBefore
              /\ frequency = lastWrite)

\* An unmapped character was read while a note was held at another octave
\* than the initial one.
C13_Witness ==
    /\ event = Char("q")
    /\ frequency > 0
    /\ current_octave # 3

(***************************************************************************)
(* C14.  write_data calls the engine step once per frame and writes the    *)
(* value it returned, converted to the sample format, to every slot of     *)
(* that frame: for a buffer of n slots and c channels a callback takes     *)
(* exactly ceil(n / c) engine steps, in frame order, and the slots of one  *)
(* frame hold the same value.                                              *)
(***************************************************************************)
CeilDiv(n, c) == (n + c - 1) \div c

\* The frame, counted from 1, that slot i belongs to.
FrameOf(i) == ((i - 1) \div channels) + 1

C14_WriteData ==
    /\ \A i \in 1..Len(output) :
           IF i < pos
           THEN /\ FrameOf(i) <= Len(returned)
                /\ output[i] = from_sample(sample_format, returned[FrameOf(i)])
           ELSE output[i] = Stale
    /\ Len(returned) = CeilDiv(pos - 1, channels) + (IF wd_pc = "write" THEN 1 ELSE 0)
    /\ wd_pc = "idle" =>
           /\ pos = Len(output) + 1
           /\ Len(returned) = CeilDiv(Len(output), channels)

\* A callback has filled a buffer of three slots for two channels: a full
\* frame and a short one, from two engine steps that returned different
\* values.
C14_Witness ==
    /\ wd_pc = "idle"
    /\ channels = 2
    /\ Len(output) = 3
    /\ Len(returned) = 2
    /\ output[1] = output[2]
    /\ output[3] # output[1]
    /\ output[3] # Stale

(***************************************************************************)
(* C15.  note_to_frequency called with a note name that NOTE_MAPPING does  *)
(* not hold takes pitch class 0: for every octave it returns what it       *)
(* returns for "C" at that octave, and it does return.                     *)
(***************************************************************************)
C15_UnknownNote ==
    (note \in UnknownNotes /\ result # 0) =>
        /\ result = midi_to_freq(12 * (octave + 1))
        /\ result = note_to_frequency("C", octave)

\* The call with a flat at octave 4 returned the pitch of MIDI note 60.
C15_Witness ==
    /\ note = "Db"
    /\ octave = 4
    /\ result = midi_to_freq(60)

(***************************************************************************)
(* C16.  An engine step that read the frequency 0 emits a sample equal to  *)
(* 0 whatever the amplitude is: the sine argument is the phase times the   *)
(* frequency just read, not the pitch that was held before, so the output  *)
(* is silent from the first step after mute on, while the amplitude is     *)
(* still on its way down.                                                  *)
(***************************************************************************)
C16_SilentRelease ==
    /\ (audio_pc = "idle" /\ readFreq = 0) => sample = Zero
    /\ sample # Zero =>
           sample.wave = "sin" /\ sample.freq = readFreq /\ sample.freq > 0

\* The first step after a mute that interrupted a note: the phase is not 0
\* and the amplitude is still above 0, and the sample is 0.
C16_Witness ==
    /\ audio_pc = "idle"
    /\ lastWrite = 0
    /\ relSteps = 1
    /\ readFreq = 0
    /\ sample_clock > 0
    /\ amplitude > 0
    /\ sample = Zero

(***************************************************************************)
(* C17.  After every engine step releasing is true exactly when the        *)
(* frequency that step read was not greater than 0, and false exactly when *)
(* it was greater than 0.  The flag decides nothing: the amplitude, the    *)
(* phase and the sample after a step are determined by the frequency read, *)
(* the amplitude, the phase and the sample rate, whatever the flag was.    *)
(***************************************************************************)
C17_Releasing ==
    /\ [](nsteps = 0 => ~releasing)
    /\ [](nsteps > 0 => (releasing <=> ~(readFreq > 0)))
    /\ [][EngineStep =>
              /\ amplitude' = Envelope(freq, amplitude, sample_rate)
              /\ sample_clock' = NextClock(sample_clock, sample_rate)
              /\ sample' = Sample(sample_clock', freq, amplitude', sample_rate)]_vars

\* Two steps: the first read 0 and set the flag, the second read a note,
\* cleared the flag and took the first attack step.
C17_Witness ==
    /\ nsteps = 2
    /\ atkSteps = 1
    /\ readFreq > 0
    /\ ~releasing
    /\ amplitude = ramp_speed

(***************************************************************************)
(* C18.  The shared frequency, whenever no store into it is half done, and *)
(* every value a key event is about to store, is 0.0 or the pitch of a     *)
(* MIDI note in 12..122 (octave plus offset in 0..9, pitch class from the  *)
(* key map); it is never negative.  Every note name of KEY_MAP is a name   *)
(* of NOTE_MAPPING, so a key press never takes the pitch-class-0 fallback. *)
(***************************************************************************)
Pitches == {midi_to_freq(m) : m \in 12..122}

C18_FrequencyRange ==
    /\ ctl_pc # "store2" => frequency \in {0} \cup Pitches
    /\ new_freq \in {0} \cup Pitches
    /\ lastWrite \in {0} \cup Pitches
    /\ frequency >= 0
    /\ \A c \in DOMAIN KEY_MAP :
           /\ KEY_MAP[c][1] \in KnownNotes
           /\ KEY_MAP[c][2] \in {0, 1}

\* The highest pitch, D at octave 9 (MIDI 122), is stored.
C18_Witness ==
    /\ current_octave = 8
    /\ event = Char("l")
    /\ ctl_pc = "read"
    /\ frequency = midi_to_freq(122)

(***************************************************************************)
(* C19.  An octave key ('z' or 'x') never changes the shared frequency: it *)
(* takes no lock and stores nothing, so the note that sounds keeps its     *)
(* pitch, and the new octave shows only in the pitch the next note key     *)
(* stores.                                                                 *)
(***************************************************************************)
OctaveKeys == {Char("z"), Char("x")}

C19_OctaveKey ==
    /\ [][(nkeys' # nkeys /\ event' \in OctaveKeys) =>
              /\ UNCHANGED <<frequency, new_freq, mutex>>
              /\ ctl_pc' = "read"]_vars
    /\ [](event \in OctaveKeys => frequency = lastWrite /\ ctl_pc = "read")
    /\ [][(nkeys' # nkeys /\ Stores(event') /\ event' # Char(" ")) =>
              new_freq' = note_to_frequency(KEY_MAP[event'.c][1],
                                            current_octave + KEY_MAP[event'.c][2])]_vars

\* 'h' stored 220 Hz at octave 3, 'x' raised the octave to 4, and the engine
\* step that follows reads 220 Hz still.
C19_Witness ==
    /\ event = Char("x")
    /\ current_octave = 4
    /\ frequency = Hz(220)
    /\ audio_pc = "loaded"
    /\ freq = Hz(220)

(***************************************************************************)
(* C20.  The two contexts never deadlock on the mutex: under fair          *)
(* scheduling every engine step that has started takes the lock, finishes  *)
(* and hands its sample to write_data, every callback runs to its end, and *)
(* every key event that stores into the frequency completes its store and  *)
(* releases the lock, however the two contexts interleave.                 *)
(***************************************************************************)
C20_NoDeadlock ==
    /\ (wd_pc = "call") ~> (wd_pc = "write")
    /\ (wd_pc # "idle") ~> (wd_pc = "idle")
    /\ (ctl_pc = "lock") ~> (ctl_pc = "unlock" /\ frequency = new_freq)
    /\ (ctl_pc = "unlock") ~> (ctl_pc = "read" /\ mutex # "control")

\* An engine step has started and waits for the mutex, which the control
\* context holds in the middle of its store.
C20_Witness ==
    /\ wd_pc = "call"
    /\ audio_pc = "idle"
    /\ mutex = "control"
    /\ ctl_pc = "store2"

=============================================================================
